---- MODULE Spec2Model ----
\* A model of the rectangle primitive of embedded-graphics
\* (src/core/src/primitives/rectangle/mod.rs): the pure functions of
\* Rectangle, applied to operands drawn from bounded sets.
EXTENDS Integers, FiniteSets, Sequences, TLC

VARIABLES self, other, op, arg, result, status, iter, yielded

vars == <<self, other, op, arg, result, status, iter, yielded>>

-----------------------------------------------------------------------------
\* Bounds of the model.

\* Width in bits of the machine integers (i32 / u32 scaled down).
IntBits == 5

\* Coordinates of single-rectangle operands: -MaxCoord..MaxCoord, plus the extremes.
MaxCoord == 1

\* Sizes of single-rectangle operands: 0..MaxSize, plus the extremes.
MaxSize == 3

\* Target sizes of a resize: 0..MaxNewSize.
MaxNewSize == 3

\* Amounts of an offset: -MaxAmount..MaxAmount, plus the extremes.
MaxAmount == 2

\* Coordinates of the operands of a binary operation: -1..MaxPairCoord.
MaxPairCoord == 0

\* Sizes of the operands of a binary operation: 0..MaxPairSize.
MaxPairSize == 3

\* Ends of the ranges of an overlap check: -MaxRangeEnd..MaxRangeEnd, plus the
\* extremes.
MaxRangeEnd == 2

-----------------------------------------------------------------------------
\* Machine integers.

I32Max == 2^(IntBits - 1) - 1

I32Min == -(2^(IntBits - 1))

U32Max == 2^IntBits - 1

InI32(n) == I32Min <= n /\ n <= I32Max

\* Two's complement wrap-around of a signed result (release build).
WrapI32(n) == ((n - I32Min) % (U32Max + 1)) + I32Min

\* Wrap-around of an unsigned result, and the `as u32` cast of an i32.
WrapU32(n) == n % (U32Max + 1)

SatI32(n) == IF n > I32Max THEN I32Max ELSE IF n < I32Min THEN I32Min ELSE n

SatU32(n) == IF n > U32Max THEN U32Max ELSE IF n < 0 THEN 0 ELSE n

Max(a, b) == IF a >= b THEN a ELSE b

Min(a, b) == IF a <= b THEN a ELSE b

Abs(n) == IF n < 0 THEN -n ELSE n

\* u32.saturating_as::<i32>()
saturating_as(u) == IF u > I32Max THEN I32Max ELSE u

\* i32::saturating_add
saturating_add(a, b) == SatI32(a + b)

\* Rust's `/` on i32: truncation toward zero.
TruncDiv(a, b) == IF a >= 0 THEN a \div b ELSE -((-a) \div b)

-----------------------------------------------------------------------------
\* Point and Size (geometry module).

Point(x, y) == [x |-> x, y |-> y]

Size(w, h) == [width |-> w, height |-> h]

Point_zero == Point(0, 0)

Size_zero == Size(0, 0)

Size_new_equal(v) == Size(v, v)

component_min(p, q) == Point(Min(p.x, q.x), Min(p.y, q.y))

component_max(p, q) == Point(Max(p.x, q.x), Max(p.y, q.y))

\* Point + Size
PointAddSize(p, s) ==
    Point(SatI32(p.x + saturating_as(s.width)), SatI32(p.y + saturating_as(s.height)))

\* Point - Point
PointSub(p, q) == Point(SatI32(p.x - q.x), SatI32(p.y - q.y))

\* Point::sub_size
sub_size(p, s) ==
    Point(SatI32(p.x - saturating_as(s.width)), SatI32(p.y - saturating_as(s.height)))

\* Size::saturating_sub
Size_saturating_sub(s, t) == Size(SatU32(s.width - t.width), SatU32(s.height - t.height))

\* Size::saturating_add
Size_saturating_add(s, t) == Size(SatU32(s.width + t.width), SatU32(s.height + t.height))

\* Size::div_u32
div_u32(s, d) == Size(s.width \div d, s.height \div d)

\* Size::from_bounding_box: the inclusive span of two corners.
from_bounding_box(c1, c2) == Size(SatU32(Abs(c1.x - c2.x) + 1), SatU32(Abs(c1.y - c2.y) + 1))

AnchorXs == {"Left", "Center", "Right"}

AnchorYs == {"Top", "Center", "Bottom"}

AnchorPoints ==
    {"TopLeft", "TopCenter", "TopRight", "CenterLeft", "Center", "CenterRight",
     "BottomLeft", "BottomCenter", "BottomRight"}

\* AnchorPoint::x
AnchorPoint_x(a) ==
    IF a \in {"TopLeft", "CenterLeft", "BottomLeft"} THEN "Left"
    ELSE IF a \in {"TopCenter", "Center", "BottomCenter"} THEN "Center"
    ELSE "Right"

\* AnchorPoint::y
AnchorPoint_y(a) ==
    IF a \in {"TopLeft", "TopCenter", "TopRight"} THEN "Top"
    ELSE IF a \in {"CenterLeft", "Center", "CenterRight"} THEN "Center"
    ELSE "Bottom"

-----------------------------------------------------------------------------
\* Rectangle.

Rectangle(top_left, size) == [top_left |-> top_left, size |-> size]

zero == Rectangle(Point_zero, Size_zero)

is_zero_sized(r) == r.size.height = 0 \/ r.size.width = 0

None == [some |-> FALSE]

Some(v) == [some |-> TRUE, v |-> v]

\* The bottom right corner computed without the `- Point::new(1, 1)`.
bottom_right_exclusive(r) ==
    IF r.size.width > 0 /\ r.size.height > 0
    THEN Some(PointAddSize(r.top_left, r.size))
    ELSE None

bottom_right(r) ==
    IF r.size.width > 0 /\ r.size.height > 0
    THEN Some(PointSub(PointAddSize(r.top_left, r.size), Point(1, 1)))
    ELSE None

\* contains without the check against top_left.
contains_no_top_left(r, point) ==
    LET br == bottom_right(r)
    IN  br.some /\ point.x <= br.v.x /\ point.y <= br.v.y

\* contains with the bottom right corner taken as exclusive.
contains_exclusive(r, point) ==
    IF point.x >= r.top_left.x /\ point.y >= r.top_left.y
    THEN LET br == bottom_right(r)
         IN  br.some /\ point.x < br.v.x /\ point.y < br.v.y
    ELSE FALSE

contains(r, point) ==
    IF point.x >= r.top_left.x /\ point.y >= r.top_left.y
    THEN LET br == bottom_right(r)
         IN  br.some /\ point.x <= br.v.x /\ point.y <= br.v.y
    ELSE FALSE

with_corners(corner_1, corner_2) ==
    LET left == Min(corner_1.x, corner_2.x)
        top == Min(corner_1.y, corner_2.y)
    IN  Rectangle(Point(left, top), from_bounding_box(corner_1, corner_2))

\* The center offset computed as size / 2.
center_offset_half(size) == div_u32(size, 2)

center_offset(size) == div_u32(Size_saturating_sub(size, Size_new_equal(1)), 2)

with_center(center, size) == Rectangle(sub_size(center, center_offset(size)), size)

\* center adding size / 2 to the top left corner.
center_half(r) == PointAddSize(r.top_left, div_u32(r.size, 2))

center(r) == PointAddSize(r.top_left, center_offset(r.size))

\* `offset as u32 * 2` / `(-offset) as u32 * 2` before the product is reduced
\* to 32 bits.
offset_delta_exact(amount) ==
    IF amount >= 0 THEN WrapU32(amount) * 2 ELSE WrapU32(WrapI32(-amount)) * 2

\* Whether the unchecked negation or multiplication of offset overflows.
offset_overflows(amount) ==
    \/ (amount < 0 /\ ~InI32(-amount))
    \/ offset_delta_exact(amount) > U32Max

\* offset growing (shrinking) each dimension by the amount, not twice the amount.
offset_one_side(r, amount) ==
    LET size == IF amount >= 0
                THEN Size_saturating_add(r.size, Size_new_equal(WrapU32(amount)))
                ELSE Size_saturating_sub(r.size, Size_new_equal(WrapU32(WrapI32(-amount))))
    IN  with_center(center(r), size)

offset(r, amount) ==
    LET delta == WrapU32(offset_delta_exact(amount))
        size == IF amount >= 0
                THEN Size_saturating_add(r.size, Size_new_equal(delta))
                ELSE Size_saturating_sub(r.size, Size_new_equal(delta))
    IN  with_center(center(r), size)

RangeInclusive(start, end) == [start |-> start, end |-> end]

\* RangeInclusive::contains
range_contains(r, v) == r.start <= v /\ v <= r.end

\* The overlap check without its third case (no end of `first` inside `second`).
overlaps_ends_only(first, second) ==
    \/ range_contains(second, first.start)
    \/ range_contains(second, first.end)

\* The overlap check without its second case (the end of `first` inside
\* `second`).
overlaps_start_only(first, second) ==
    \/ range_contains(second, first.start)
    \/ (first.start < second.start /\ first.end > second.end)

\* The overlap check looking at one side only.
overlaps_one_sided(first, second) == first.start <= second.end

overlaps(first, second) ==
    \/ range_contains(second, first.start)
    \/ range_contains(second, first.end)
    \/ (first.start < second.start /\ first.end > second.end)

\* intersection taking the componentwise minimum of the top left corners.
intersection_min_corner(s, o) ==
    LET obr == bottom_right(o)
        sbr == bottom_right(s)
    IN  IF obr.some /\ sbr.some
        THEN IF /\ overlaps(RangeInclusive(s.top_left.x, sbr.v.x),
                            RangeInclusive(o.top_left.x, obr.v.x))
                /\ overlaps(RangeInclusive(s.top_left.y, sbr.v.y),
                            RangeInclusive(o.top_left.y, obr.v.y))
             THEN with_corners(component_min(s.top_left, o.top_left),
                               component_min(sbr.v, obr.v))
             ELSE zero
        ELSE IF obr.some /\ ~sbr.some
        THEN IF contains(o, s.top_left) THEN s ELSE zero
        ELSE IF ~obr.some /\ sbr.some
        THEN IF contains(s, o.top_left) THEN o ELSE zero
        ELSE zero

intersection(s, o) ==
    LET obr == bottom_right(o)
        sbr == bottom_right(s)
    IN  IF obr.some /\ sbr.some
        THEN IF /\ overlaps(RangeInclusive(s.top_left.x, sbr.v.x),
                            RangeInclusive(o.top_left.x, obr.v.x))
                /\ overlaps(RangeInclusive(s.top_left.y, sbr.v.y),
                            RangeInclusive(o.top_left.y, obr.v.y))
             THEN with_corners(component_max(s.top_left, o.top_left),
                               component_min(sbr.v, obr.v))
             ELSE zero
        ELSE IF obr.some /\ ~sbr.some
        THEN IF contains(o, s.top_left) THEN s ELSE zero
        ELSE IF ~obr.some /\ sbr.some
        THEN IF contains(s, o.top_left) THEN o ELSE zero
        ELSE zero

\* The offset of an anchor from the top left corner, given the extent - 1.
anchor_offset_x(anchor_x, delta) ==
    CASE anchor_x = "Left" -> 0
      [] anchor_x = "Center" -> TruncDiv(delta, 2)
      [] anchor_x = "Right" -> delta

anchor_offset_y(anchor_y, delta) ==
    CASE anchor_y = "Top" -> 0
      [] anchor_y = "Center" -> TruncDiv(delta, 2)
      [] anchor_y = "Bottom" -> delta

\* anchor_x without the clamp of a zero width to 1.
anchor_x_exact_no_clamp(r, anchor_x) ==
    LET delta == saturating_as(r.size.width) - 1
    IN  r.top_left.x + anchor_offset_x(anchor_x, delta)

\* anchor_x before the i32 addition is reduced to 32 bits.
anchor_x_exact(r, anchor_x) ==
    LET delta == Max(saturating_as(r.size.width), 1) - 1
    IN  r.top_left.x + anchor_offset_x(anchor_x, delta)

anchor_x(r, anchor_x_) == WrapI32(anchor_x_exact(r, anchor_x_))

anchor_y_exact(r, anchor_y) ==
    LET delta == Max(saturating_as(r.size.height), 1) - 1
    IN  r.top_left.y + anchor_offset_y(anchor_y, delta)

anchor_y(r, anchor_y_) == WrapI32(anchor_y_exact(r, anchor_y_))

anchor_point(r, a) == Point(anchor_x(r, AnchorPoint_x(a)), anchor_y(r, AnchorPoint_y(a)))

\* Whether an unchecked i32 addition of anchor_point overflows.
anchor_point_overflows(r, a) ==
    \/ ~InI32(anchor_x_exact(r, AnchorPoint_x(a)))
    \/ ~InI32(anchor_y_exact(r, AnchorPoint_y(a)))

\* envelope built on bottom_right(), which zero sized rectangles do not have.
envelope_bottom_right(s, o) ==
    LET sbr == bottom_right(s)
        obr == bottom_right(o)
        top_left == component_min(s.top_left, o.top_left)
        corner == component_max(IF sbr.some THEN sbr.v ELSE s.top_left,
                                IF obr.some THEN obr.v ELSE o.top_left)
    IN  with_corners(top_left, corner)

envelope(s, o) ==
    LET top_left == component_min(s.top_left, o.top_left)
        bottom_right_ == component_max(anchor_point(s, "BottomRight"),
                                       anchor_point(o, "BottomRight"))
    IN  with_corners(top_left, bottom_right_)

envelope_overflows(s, o) ==
    anchor_point_overflows(s, "BottomRight") \/ anchor_point_overflows(o, "BottomRight")

\* resize_width_mut before the i32 `+=` is reduced to 32 bits: the new top_left.x.
resize_width_exact(r, width, anchor_x_) ==
    LET delta == Max(saturating_as(r.size.width), 1) - Max(saturating_as(width), 1)
    IN  r.top_left.x + anchor_offset_x(anchor_x_, delta)

\* resize_width_mut moving the top left corner by the full delta for Center too.
resize_width_mut_full_delta(r, width, anchor_x_) ==
    LET delta == Max(saturating_as(r.size.width), 1) - Max(saturating_as(width), 1)
        shift == IF anchor_x_ = "Left" THEN 0 ELSE delta
    IN  Rectangle(Point(WrapI32(r.top_left.x + shift), r.top_left.y),
                  Size(width, r.size.height))

resize_width_mut(r, width, anchor_x_) ==
    Rectangle(Point(WrapI32(resize_width_exact(r, width, anchor_x_)), r.top_left.y),
              Size(width, r.size.height))

resize_height_exact(r, height, anchor_y_) ==
    LET delta == Max(saturating_as(r.size.height), 1) - Max(saturating_as(height), 1)
    IN  r.top_left.y + anchor_offset_y(anchor_y_, delta)

\* resize_height_mut writing the new height to both dimensions.
resize_height_mut_both_axes(r, height, anchor_y_) ==
    Rectangle(Point(r.top_left.x, WrapI32(resize_height_exact(r, height, anchor_y_))),
              Size(height, height))

resize_height_mut(r, height, anchor_y_) ==
    Rectangle(Point(r.top_left.x, WrapI32(resize_height_exact(r, height, anchor_y_))),
              Size(r.size.width, height))

resized(r, size, a) ==
    resize_height_mut(resize_width_mut(r, size.width, AnchorPoint_x(a)),
                      size.height, AnchorPoint_y(a))

resized_width(r, width, anchor_x_) == resize_width_mut(r, width, anchor_x_)

resized_height(r, height, anchor_y_) == resize_height_mut(r, height, anchor_y_)

\* Whether the unchecked `+=` of a resize overflows.
resized_width_overflows(r, width, anchor_x_) ==
    ~InI32(resize_width_exact(r, width, anchor_x_))

resized_height_overflows(r, height, anchor_y_) ==
    ~InI32(resize_height_exact(r, height, anchor_y_))

resized_overflows(r, size, a) ==
    \/ resized_width_overflows(r, size.width, AnchorPoint_x(a))
    \/ resized_height_overflows(r, size.height, AnchorPoint_y(a))

\* A half-open Range<i32>.
Range(start, end) == [start |-> start, end |-> end]

\* Range::is_empty / an iterator over the range yielding nothing.
Range_is_empty(g) == ~(g.start < g.end)

rows(r) ==
    Range(r.top_left.y, saturating_add(r.top_left.y, saturating_as(r.size.height)))

columns(r) ==
    Range(r.top_left.x, saturating_add(r.top_left.x, saturating_as(r.size.width)))

\* The Points iterator: a copy of the row range and the column range, and the
\* cursor (the point the next advance yields, None when there is none).
Points(state, rs, cs, current) ==
    [state |-> state, rows |-> rs, columns |-> cs, current |-> current]

\* Points::new: the cursor is on the first point, or absent if either range is
\* empty.
Points_new(r) ==
    LET rs == rows(r)
        cs == columns(r)
    IN  Points("Init", rs, cs,
               IF Range_is_empty(rs) \/ Range_is_empty(cs)
               THEN None
               ELSE Some(Point(cs.start, rs.start)))

points(r) == Points_new(r)

\* The cursor after the point p was yielded: the next column; on column
\* exhaustion the first column of the next row; none when the rows are consumed.
Points_advance(it, p) ==
    IF p.x + 1 < it.columns.end THEN Some(Point(p.x + 1, p.y))
    ELSE IF p.y + 1 < it.rows.end THEN Some(Point(it.columns.start, p.y + 1))
    ELSE None

\* Points::next: the point yielded (None when nothing is yielded) and the
\* iterator afterwards.
Points_next(it) ==
    IF it.current.some
    THEN [item |-> it.current,
          it |-> Points("Active", it.rows, it.columns, Points_advance(it, it.current.v))]
    ELSE [item |-> None,
          it |-> Points("Exhausted", it.rows, it.columns, None)]

-----------------------------------------------------------------------------
\* Operands.

PairCoords == (-1)..MaxPairCoord

PairSizes == 0..MaxPairSize

PairRects ==
    {Rectangle(Point(x, y), Size(w, h)) :
        x \in PairCoords, y \in PairCoords, w \in PairSizes, h \in PairSizes}

Coords == {I32Min, I32Max} \cup ((-MaxCoord)..MaxCoord)

Sizes == (0..MaxSize) \cup {I32Max, U32Max}

Rects ==
    {Rectangle(Point(x, y), Size(w, h)) :
        x \in Coords, y \in Coords, w \in Sizes, h \in Sizes}

Amounts == {I32Min, I32Max} \cup ((-MaxAmount)..MaxAmount)

NewSizes == 0..MaxNewSize

NoArg == [kind |-> "none"]

NoResult == [kind |-> "none"]

\* The outcome of an operation: its value when no overflow occurred; on an
\* overflow of unchecked i32 arithmetic either the wrapped value (release
\* build) or a panic (debug build).
Outcome(name, a, val, ovf) ==
    /\ op' = name
    /\ arg' = a
    /\ IF ovf
       THEN \E st \in {"wrapped", "panic"} :
               /\ status' = st
               /\ result' = IF st = "panic" THEN NoResult ELSE val
       ELSE status' = "ok" /\ result' = val
    /\ UNCHANGED <<self, other, iter, yielded>>

\* No iterator was made.
NoPoints == [state |-> "none"]

InitPair ==
    /\ self \in PairRects
    /\ other \in PairRects
    /\ op = "new"
    /\ arg = NoArg
    /\ result = NoResult
    /\ status = "ok"
    /\ iter = NoPoints
    /\ yielded = << >>

Intersection ==
    /\ op = "new"
    /\ Outcome("intersection", NoArg, intersection(self, other), FALSE)

Envelope ==
    /\ op = "new"
    /\ Outcome("envelope", NoArg, envelope(self, other), envelope_overflows(self, other))

NextPair == Intersection \/ Envelope

SpecPair == InitPair /\ [][NextPair]_vars

\* A single rectangle (or the center and size handed to with_center).
InitRect ==
    /\ self \in Rects
    /\ other = zero
    /\ op = "new"
    /\ arg = NoArg
    /\ result = NoResult
    /\ status = "ok"
    /\ iter = NoPoints
    /\ yielded = << >>

Rows ==
    /\ op = "new"
    /\ Outcome("rows", NoArg, rows(self), FALSE)

Columns ==
    /\ op = "new"
    /\ Outcome("columns", NoArg, columns(self), FALSE)

\* with_center(center, size) with center = self.top_left and size = self.size.
WithCenter ==
    /\ op = "new"
    /\ Outcome("with_center", [center |-> self.top_left, size |-> self.size],
               with_center(self.top_left, self.size), FALSE)

Next == Rows \/ Columns \/ WithCenter

Spec == InitRect /\ [][Next]_vars

Resized ==
    /\ op = "new"
    /\ \E w \in NewSizes, h \in NewSizes, a \in AnchorPoints :
          Outcome("resized", [size |-> Size(w, h), anchor |-> a],
                  resized(self, Size(w, h), a), resized_overflows(self, Size(w, h), a))

ResizedWidth ==
    /\ op = "new"
    /\ \E w \in NewSizes, ax \in AnchorXs :
          Outcome("resized_width", [width |-> w, anchor |-> ax],
                  resized_width(self, w, ax), resized_width_overflows(self, w, ax))

ResizedHeight ==
    /\ op = "new"
    /\ \E h \in NewSizes, ay \in AnchorYs :
          Outcome("resized_height", [height |-> h, anchor |-> ay],
                  resized_height(self, h, ay), resized_height_overflows(self, h, ay))

NextResize == Resized \/ ResizedWidth \/ ResizedHeight

SpecResize == InitRect /\ [][NextResize]_vars

Offset ==
    /\ op = "new"
    /\ \E a \in Amounts :
          Outcome("offset", [amount |-> a], offset(self, a), offset_overflows(a))

Center ==
    /\ op = "new"
    /\ Outcome("center", NoArg, center(self), FALSE)

AnchorPointOf ==
    /\ op = "new"
    /\ \E a \in AnchorPoints :
          Outcome("anchor_point", [anchor |-> a],
                  anchor_point(self, a), anchor_point_overflows(self, a))

NextOffset == Offset \/ Center \/ AnchorPointOf \/ WithCenter

SpecOffset == InitRect /\ [][NextOffset]_vars

\* The points a containment query is made with: around the origin, and the
\* extremes.
QueryCoords == {I32Min, I32Max} \cup ((-(MaxCoord + 1))..(MaxCoord + MaxSize + 1))

QueryPoints == {Point(x, y) : x \in QueryCoords, y \in QueryCoords}

Contains ==
    /\ op = "new"
    /\ \E p \in QueryPoints :
          Outcome("contains", [point |-> p], contains(self, p), FALSE)

BottomRight ==
    /\ op = "new"
    /\ Outcome("bottom_right", NoArg, bottom_right(self), FALSE)

NextContains == Contains \/ BottomRight

SpecContains == InitRect /\ [][NextContains]_vars

\* The inclusive ranges with start <= end an overlap check is made with.
RangeEnds == {I32Min, I32Max} \cup ((-MaxRangeEnd)..MaxRangeEnd)

Ranges ==
    {g \in {RangeInclusive(s, e) : s \in RangeEnds, e \in RangeEnds} : g.start <= g.end}

InitZero ==
    /\ self = zero
    /\ other = zero
    /\ op = "new"
    /\ arg = NoArg
    /\ result = NoResult
    /\ status = "ok"
    /\ iter = NoPoints
    /\ yielded = << >>

Overlaps ==
    /\ op = "new"
    /\ \E first \in Ranges, second \in Ranges :
          Outcome("overlaps", [first |-> first, second |-> second],
                  overlaps(first, second), FALSE)

NextOverlaps == Overlaps

SpecOverlaps == InitZero /\ [][NextOverlaps]_vars

\* Rectangles whose points are enumerated: every coordinate of Coords, sizes
\* 0..MaxSize.
PointsRects ==
    {Rectangle(Point(x, y), Size(w, h)) :
        x \in Coords, y \in Coords, w \in 0..MaxSize, h \in 0..MaxSize}

InitPoints ==
    /\ self \in PointsRects
    /\ other = zero
    /\ op = "new"
    /\ arg = NoArg
    /\ result = NoResult
    /\ status = "ok"
    /\ iter = NoPoints
    /\ yielded = << >>

\* self.points()
PointsOf ==
    /\ op = "new"
    /\ op' = "points"
    /\ iter' = points(self)
    /\ UNCHANGED <<self, other, arg, result, status, yielded>>

\* One advance of the iterator; result is what it yields.
PointsNext ==
    /\ op = "points"
    /\ LET n == Points_next(iter)
       IN  /\ iter' = n.it
           /\ result' = n.item
           /\ yielded' = IF n.item.some THEN Append(yielded, n.item.v) ELSE yielded
    /\ UNCHANGED <<self, other, op, arg, status>>

NextPoints == PointsOf \/ PointsNext

SpecPoints == InitPoints /\ [][NextPoints]_vars

-----------------------------------------------------------------------------
\* Properties of intersection and envelope (checked under SpecPair).

\* The points probed by the containment properties: a box around every operand.
ProbeCoords == (-2)..(MaxPairCoord + MaxPairSize + 1)

ProbePoints == {Point(x, y) : x \in ProbeCoords, y \in ProbeCoords}

IntersectionDone == op = "intersection" /\ status = "ok"

EnvelopeDone == op = "envelope" /\ status = "ok"

\* The inclusive interval a rectangle occupies on an axis; a zero sized
\* rectangle is the single point top_left.
OccupiedX(r) ==
    IF is_zero_sized(r) THEN RangeInclusive(r.top_left.x, r.top_left.x)
    ELSE RangeInclusive(r.top_left.x, r.top_left.x + r.size.width - 1)

OccupiedY(r) ==
    IF is_zero_sized(r) THEN RangeInclusive(r.top_left.y, r.top_left.y)
    ELSE RangeInclusive(r.top_left.y, r.top_left.y + r.size.height - 1)

Disjoint(i, j) == Max(i.start, j.start) > Min(i.end, j.end)

\* C1 as stated: for every rectangle R, zero sized or not,
\* R.intersection(&R) == R.
C1_SelfIntersectionAnySize ==
    (IntersectionDone /\ other = self) => result = self

\* C1 amended: R.intersection(&R) == R for every rectangle R that is not zero
\* sized; for a zero sized R (width == 0 or height == 0) it is Rectangle::zero().
C1_SelfIntersection ==
    (IntersectionDone /\ other = self) =>
        result = (IF is_zero_sized(self) THEN zero ELSE self)

C1_Witness ==
    /\ IntersectionDone
    /\ other = self
    /\ ~is_zero_sized(self)
    /\ self.top_left # Point_zero
    /\ self.size.width # self.size.height
    /\ result = self

\* C2: intersection is commutative: A.intersection(&B) == B.intersection(&A)
\* for every pair of rectangles, zero sized or not, overlapping or not.
C2_IntersectionCommutes ==
    IntersectionDone => result = intersection(other, self)

\* The cross case: neither rectangle contains a corner of the other.
C2_Witness ==
    /\ IntersectionDone
    /\ self.top_left.x > other.top_left.x
    /\ self.top_left.x + self.size.width < other.top_left.x + other.size.width
    /\ self.top_left.y < other.top_left.y
    /\ self.top_left.y + self.size.height > other.top_left.y + other.size.height
    /\ self.size.width > 0
    /\ other.size.height > 0
    /\ ~is_zero_sized(result)

\* C3: the intersection holds exactly the points of both operands, and for two
\* non zero sized rectangles that overlap on both axes it spans from the
\* componentwise maximum of the top left corners to the componentwise minimum
\* of the bottom right corners.
C3_IntersectionIsCommonArea ==
    IntersectionDone =>
        /\ \A p \in ProbePoints :
              contains(result, p) <=> (contains(self, p) /\ contains(other, p))
        /\ ( /\ ~is_zero_sized(self)
             /\ ~is_zero_sized(other)
             /\ ~Disjoint(OccupiedX(self), OccupiedX(other))
             /\ ~Disjoint(OccupiedY(self), OccupiedY(other)) ) =>
              LET left == Max(self.top_left.x, other.top_left.x)
                  top == Max(self.top_left.y, other.top_left.y)
                  right == Min(OccupiedX(self).end, OccupiedX(other).end)
                  bottom == Min(OccupiedY(self).end, OccupiedY(other).end)
              IN  /\ result = with_corners(Point(left, top), Point(right, bottom))
                  /\ result = Rectangle(Point(left, top),
                                        Size(right - left + 1, bottom - top + 1))

C3_Witness ==
    /\ IntersectionDone
    /\ ~is_zero_sized(result)
    /\ result # self
    /\ result # other
    /\ result.size.width > 1
    /\ \E p \in ProbePoints : contains(self, p) /\ ~contains(other, p)

\* C4: rectangles that do not overlap on at least one axis (a zero sized one
\* counted as the single point top_left) intersect in exactly Rectangle::zero().
C4_NoOverlapIsZero ==
    ( /\ IntersectionDone
      /\ \/ Disjoint(OccupiedX(self), OccupiedX(other))
         \/ Disjoint(OccupiedY(self), OccupiedY(other)) ) =>
        result = zero

C4_Witness ==
    /\ IntersectionDone
    /\ ~is_zero_sized(self)
    /\ ~is_zero_sized(other)
    /\ Disjoint(OccupiedX(self), OccupiedX(other))
    /\ ~Disjoint(OccupiedY(self), OccupiedY(other))
    /\ self.top_left # Point_zero
    /\ other.top_left # Point_zero
    /\ result = zero

\* Whether point p lies in the box of the non zero sized rectangle r.
InBox(r, p) ==
    /\ r.top_left.x <= p.x /\ p.x <= r.top_left.x + r.size.width - 1
    /\ r.top_left.y <= p.y /\ p.y <= r.top_left.y + r.size.height - 1

\* C5: when exactly one operand is zero sized the intersection is that operand
\* unchanged if the other contains its top_left, and Rectangle::zero() otherwise.
C5_OneZeroSized ==
    (IntersectionDone /\ is_zero_sized(self) # is_zero_sized(other)) =>
        LET z == IF is_zero_sized(self) THEN self ELSE other
            n == IF is_zero_sized(self) THEN other ELSE self
        IN  result = (IF InBox(n, z.top_left) THEN z ELSE zero)

\* A zero sized `other` on the bottom right corner of `self`, one dimension non zero.
C5_Witness ==
    /\ IntersectionDone
    /\ ~is_zero_sized(self)
    /\ is_zero_sized(other)
    /\ other.size # Size_zero
    /\ other.top_left = Point(self.top_left.x + self.size.width - 1,
                              self.top_left.y + self.size.height - 1)
    /\ other.top_left # self.top_left
    /\ result = other

\* C6 as stated: R.envelope(&R) == R for a non zero sized R, and for every zero
\* sized R it has top_left == R.top_left and size (1, 1).
C6_SelfEnvelopeUnitSize ==
    (EnvelopeDone /\ other = self) =>
        result = (IF is_zero_sized(self) THEN Rectangle(self.top_left, Size(1, 1))
                  ELSE self)

\* C6 amended: R.envelope(&R) has top_left == R.top_left and size
\* (max(width, 1), max(height, 1)): it is R when R is not zero sized, has size
\* (1, 1) when both dimensions are 0, and keeps the non zero dimension when
\* only one is 0.
C6_SelfEnvelope ==
    (EnvelopeDone /\ other = self) =>
        result = Rectangle(self.top_left,
                           Size(Max(self.size.width, 1), Max(self.size.height, 1)))

C6_Witness ==
    /\ EnvelopeDone
    /\ other = self
    /\ self.size.width = 0
    /\ self.size.height > 1
    /\ self.top_left # Point_zero
    /\ result.size = Size(1, self.size.height)

\* C7: A.envelope(&B) spans from the componentwise minimum of the top left
\* corners to the componentwise maximum of top_left + max(size, 1) - 1, holds
\* every point of A and of B, and equals B.envelope(&A).
C7_EnvelopeCovers ==
    EnvelopeDone =>
        LET left == Min(self.top_left.x, other.top_left.x)
            top == Min(self.top_left.y, other.top_left.y)
            right == Max(self.top_left.x + Max(self.size.width, 1) - 1,
                         other.top_left.x + Max(other.size.width, 1) - 1)
            bottom == Max(self.top_left.y + Max(self.size.height, 1) - 1,
                          other.top_left.y + Max(other.size.height, 1) - 1)
        IN  /\ result.top_left = Point(left, top)
            /\ result.size.width >= 1
            /\ result.size.height >= 1
            /\ result.top_left.x + result.size.width - 1 = right
            /\ result.top_left.y + result.size.height - 1 = bottom
            /\ \A p \in ProbePoints :
                  (contains(self, p) \/ contains(other, p)) => contains(result, p)
            /\ result = envelope(other, self)

\* A zero width operand to the right of and below a non zero sized one.
C7_Witness ==
    /\ EnvelopeDone
    /\ ~is_zero_sized(self)
    /\ other.size.width = 0
    /\ other.size.height > 1
    /\ other.top_left.x > self.top_left.x + self.size.width - 1
    /\ other.top_left.y > self.top_left.y
    /\ result.size.width = other.top_left.x - self.top_left.x + 1

-----------------------------------------------------------------------------
\* Properties of rows, columns and with_center (checked under Spec).

\* C8: R.rows() is empty if and only if R is zero sized, and so is R.columns(),
\* also for sizes such as (0, 5) and (5, 0) and where the end of the range
\* saturates.
C8_RangesEmptyIffZeroSized ==
    /\ (op = "rows" => (Range_is_empty(result) <=> is_zero_sized(self)))
    /\ (op = "columns" => (Range_is_empty(result) <=> is_zero_sized(self)))

\* The coordinates of a half-open range.
RangeSet(g) == {v \in I32Min..I32Max : g.start <= v /\ v < g.end}

Before(g, c) == Cardinality({v \in RangeSet(g) : v < c})

After(g, c) == Cardinality({v \in RangeSet(g) : v > c})

Even(n) == n % 2 = 0

\* with_center was applied and no coordinate of the rectangle left the i32
\* range along the axis of size component d, centered at c.
WithCenterInRange(c, d) ==
    /\ op = "with_center"
    /\ status = "ok"
    /\ d <= I32Max
    /\ InI32(c - (Max(d, 1) - 1) \div 2)
    /\ InI32(c - (Max(d, 1) - 1) \div 2 + d)

\* C9 as stated: with_center biases an even dimension toward the top left:
\* one more column (row) lies strictly left of (above) center than right of
\* (below) it; for an odd dimension the counts are equal.
C9_EvenBiasTopLeft ==
    /\ WithCenterInRange(arg.center.x, arg.size.width) =>
          Before(columns(result), arg.center.x) =
             After(columns(result), arg.center.x)
                + (IF Even(arg.size.width) /\ arg.size.width # 0 THEN 1 ELSE 0)
    /\ WithCenterInRange(arg.center.y, arg.size.height) =>
          Before(rows(result), arg.center.y) =
             After(rows(result), arg.center.y)
                + (IF Even(arg.size.height) /\ arg.size.height # 0 THEN 1 ELSE 0)

\* C9 amended: with_center biases an even, non zero dimension toward the
\* bottom right: one more column (row) lies strictly right of (below) center
\* than left of (above) it; for an odd dimension the counts are equal.
C9_EvenBiasBottomRight ==
    /\ WithCenterInRange(arg.center.x, arg.size.width) =>
          After(columns(result), arg.center.x) =
             Before(columns(result), arg.center.x)
                + (IF Even(arg.size.width) /\ arg.size.width # 0 THEN 1 ELSE 0)
    /\ WithCenterInRange(arg.center.y, arg.size.height) =>
          After(rows(result), arg.center.y) =
             Before(rows(result), arg.center.y)
                + (IF Even(arg.size.height) /\ arg.size.height # 0 THEN 1 ELSE 0)

C9_Witness ==
    /\ WithCenterInRange(arg.center.x, arg.size.width)
    /\ WithCenterInRange(arg.center.y, arg.size.height)
    /\ arg.size.width = 2
    /\ arg.size.height = 3
    /\ arg.center # Point_zero
    /\ Before(columns(result), arg.center.x) = 0
    /\ After(columns(result), arg.center.x) = 1
    /\ Before(rows(result), arg.center.y) = 1

-----------------------------------------------------------------------------
\* Properties of the resize operations (checked under SpecResize).

\* The resize and the anchor computations on both rectangles did not overflow.
ResizedInRange(name) ==
    /\ op = name
    /\ status = "ok"

AnchorXInRange(ax) ==
    InI32(anchor_x_exact(self, ax)) /\ InI32(anchor_x_exact(result, ax))

AnchorYInRange(ay) ==
    InI32(anchor_y_exact(self, ay)) /\ InI32(anchor_y_exact(result, ay))

\* C10 as stated: a resize leaves the anchor it is made around where it was,
\* for each of the 9 anchor points (and for each AnchorX / AnchorY of
\* resized_width / resized_height), where no overflow occurs.
C10_ResizePinsAnchor ==
    /\ ( /\ ResizedInRange("resized")
         /\ AnchorXInRange(AnchorPoint_x(arg.anchor))
         /\ AnchorYInRange(AnchorPoint_y(arg.anchor)) ) =>
          anchor_point(result, arg.anchor) = anchor_point(self, arg.anchor)
    /\ (ResizedInRange("resized_width") /\ AnchorXInRange(arg.anchor)) =>
          anchor_x(result, arg.anchor) = anchor_x(self, arg.anchor)
    /\ (ResizedInRange("resized_height") /\ AnchorYInRange(arg.anchor)) =>
          anchor_y(result, arg.anchor) = anchor_y(self, arg.anchor)

\* How far a Center anchor moves when an extent changes from old to new (both
\* taken as at least 1 and at most i32::MAX): +1 when it grows from even to
\* odd, -1 when it shrinks from odd to even, 0 otherwise.
CenterDrift(old, new) ==
    LET a == Max(saturating_as(old), 1)
        b == Max(saturating_as(new), 1)
    IN  IF Even(a) /\ ~Even(b) /\ a < b THEN 1
        ELSE IF ~Even(a) /\ Even(b) /\ a > b THEN -1
        ELSE 0

AnchorDrift(anchor, old, new) == IF anchor = "Center" THEN CenterDrift(old, new) ELSE 0

\* C10 amended: where no overflow occurs a resize leaves every edge anchor
\* (Left, Right, Top, Bottom) where it was; a Center anchor stays where it was
\* except that it moves by +1 when the extent (taken as at least 1) grows from
\* even to odd and by -1 when it shrinks from odd to even.
C10_ResizePinsEdges ==
    /\ ( /\ ResizedInRange("resized")
         /\ AnchorXInRange(AnchorPoint_x(arg.anchor))
         /\ AnchorYInRange(AnchorPoint_y(arg.anchor)) ) =>
          anchor_point(result, arg.anchor) =
             Point(anchor_x(self, AnchorPoint_x(arg.anchor))
                      + AnchorDrift(AnchorPoint_x(arg.anchor),
                                    self.size.width, arg.size.width),
                   anchor_y(self, AnchorPoint_y(arg.anchor))
                      + AnchorDrift(AnchorPoint_y(arg.anchor),
                                    self.size.height, arg.size.height))
    /\ (ResizedInRange("resized_width") /\ AnchorXInRange(arg.anchor)) =>
          anchor_x(result, arg.anchor) =
             anchor_x(self, arg.anchor)
                + AnchorDrift(arg.anchor, self.size.width, arg.width)
    /\ (ResizedInRange("resized_height") /\ AnchorYInRange(arg.anchor)) =>
          anchor_y(result, arg.anchor) =
             anchor_y(self, arg.anchor)
                + AnchorDrift(arg.anchor, self.size.height, arg.height)

\* A resize around Center that shrinks the width from odd to even and grows
\* the height from even to odd: the anchor moves by (-1, +1).
C10_Witness ==
    /\ ResizedInRange("resized")
    /\ arg.anchor = "Center"
    /\ AnchorXInRange("Center")
    /\ AnchorYInRange("Center")
    /\ self.size = Size(3, 2)
    /\ arg.size = Size(2, 3)
    /\ self.top_left # Point_zero
    /\ anchor_point(result, "Center") =
          Point(anchor_x(self, "Center") - 1, anchor_y(self, "Center") + 1)

-----------------------------------------------------------------------------
\* Properties of offset, center and the anchors (checked under SpecOffset).

\* The center offset of an extent d.
HalfExtent(d) == (Max(d, 1) - 1) \div 2

\* offset by `amount` was applied and, along the axis with coordinate c and
\* extent d, neither a coordinate nor the new extent left its range.
OffsetInRange(c, d) ==
    /\ op = "offset"
    /\ status = "ok"
    /\ d + 2 * arg.amount <= U32Max
    /\ InI32(c - arg.amount)
    /\ InI32(c + HalfExtent(d))
    /\ InI32(c + HalfExtent(d) - HalfExtent(Max(d + 2 * arg.amount, 0)))

\* The claim of C11 along one axis: c and d are the coordinate and extent of
\* R, c2 and d2 those of R.offset(amount).
OffsetAxisSymmetric(c, d, c2, d2) ==
    /\ (arg.amount >= 0 \/ d + 2 * arg.amount >= 1) =>
          (c2 = c - arg.amount /\ d2 = d + 2 * arg.amount)
    /\ (arg.amount < 0 /\ d + 2 * arg.amount < 1) => d2 = 0
    /\ arg.amount = 0 => (c2 = c /\ d2 = d)

\* C11 as stated: for every rectangle R, zero sized ones included, and every
\* amount a whose shrinking does not saturate, R.offset(a) has top_left ==
\* R.top_left - (a, a) and size == R.size + (2a, 2a); a saturating shrink
\* gives a size component 0; and R.offset(0) == R.
C11_OffsetSymmetricAnySize ==
    /\ OffsetInRange(self.top_left.x, self.size.width) =>
          OffsetAxisSymmetric(self.top_left.x, self.size.width,
                              result.top_left.x, result.size.width)
    /\ OffsetInRange(self.top_left.y, self.size.height) =>
          OffsetAxisSymmetric(self.top_left.y, self.size.height,
                              result.top_left.y, result.size.height)

\* The amended claim along one axis: a zero extent grows to 2a with the top
\* left corner moving by a - 1 only.
OffsetAxis(c, d, c2, d2) ==
    /\ (d >= 1 /\ (arg.amount >= 0 \/ d + 2 * arg.amount >= 1)) =>
          (c2 = c - arg.amount /\ d2 = d + 2 * arg.amount)
    /\ (d = 0 /\ arg.amount > 0) =>
          (c2 = c - (arg.amount - 1) /\ d2 = 2 * arg.amount)
    /\ (arg.amount < 0 /\ d + 2 * arg.amount < 1) => d2 = 0
    /\ arg.amount = 0 => (c2 = c /\ d2 = d)

\* C11 amended: where nothing overflows, along every axis on which R has a non
\* zero dimension R.offset(a) has top_left == R.top_left - a and size ==
\* R.size + 2a, for every a whose shrinking does not saturate; along an axis
\* on which R has dimension 0 and a > 0 the size is 2a and top_left ==
\* R.top_left - (a - 1); a saturating shrink gives a size component 0; and
\* R.offset(0) == R.
C11_OffsetSymmetric ==
    /\ OffsetInRange(self.top_left.x, self.size.width) =>
          OffsetAxis(self.top_left.x, self.size.width,
                     result.top_left.x, result.size.width)
    /\ OffsetInRange(self.top_left.y, self.size.height) =>
          OffsetAxis(self.top_left.y, self.size.height,
                     result.top_left.y, result.size.height)

\* A width that grows, a height of 0 that grows, away from the origin.
C11_Witness ==
    /\ OffsetInRange(self.top_left.x, self.size.width)
    /\ OffsetInRange(self.top_left.y, self.size.height)
    /\ arg.amount = 2
    /\ self.size = Size(3, 0)
    /\ self.top_left # Point_zero
    /\ result = Rectangle(Point(self.top_left.x - 2, self.top_left.y - 1), Size(7, 4))

\* A shrink that saturates along one axis and not along the other.
C11_WitnessShrink ==
    /\ OffsetInRange(self.top_left.x, self.size.width)
    /\ OffsetInRange(self.top_left.y, self.size.height)
    /\ arg.amount = -1
    /\ self.size = Size(3, 1)
    /\ result = Rectangle(Point(self.top_left.x + 1, self.top_left.y), Size(1, 0))

\* What the anchor and the offset would be if every conversion, addition,
\* negation and multiplication in them saturated.
anchor_point_saturating(r, a) ==
    Point(SatI32(anchor_x_exact(r, AnchorPoint_x(a))),
          SatI32(anchor_y_exact(r, AnchorPoint_y(a))))

offset_saturating(r, amount) ==
    LET delta == SatU32(2 * SatI32(Abs(amount)))
        size == IF amount >= 0
                THEN Size_saturating_add(r.size, Size_new_equal(delta))
                ELSE Size_saturating_sub(r.size, Size_new_equal(delta))
    IN  with_center(center(r), size)

\* C12: over the full coordinate and size range anchor_point and offset never
\* wrap or panic; every signed addition, negation and multiplication in them
\* saturates at the representable extreme, so the value returned is the
\* saturated one (for example top_left.x at the maximum with width >= 2, or
\* offset(i32::MIN)).
C12_ArithmeticSaturates ==
    /\ op = "anchor_point" =>
           /\ status = "ok"
           /\ result = anchor_point_saturating(self, arg.anchor)
    /\ op = "offset" =>
           /\ status = "ok"
           /\ result = offset_saturating(self, arg.amount)

\* No coordinate overflows when a rectangle of size s is put around the
\* center c and its center is taken again.
CenterInRange(c, s) ==
    /\ InI32(c.x - HalfExtent(s.width))
    /\ InI32(c.y - HalfExtent(s.height))

\* The center of r is representable.
HasCenter(r) ==
    /\ InI32(r.top_left.x + HalfExtent(r.size.width))
    /\ InI32(r.top_left.y + HalfExtent(r.size.height))

\* C17: for every center c and size s (odd, even or zero dimensions) for
\* which no coordinate overflows, with_center(c, s).center() == c, and
\* consequently R.offset(a).center() == R.center().
C17_CenterRoundTrip ==
    /\ (op = "with_center" /\ CenterInRange(arg.center, arg.size)) =>
           center(result) = arg.center
    /\ (op = "offset" /\ status # "panic" /\ HasCenter(self)
           /\ CenterInRange(center(self), result.size)) =>
           center(result) = center(self)

\* offset(2) of a rectangle with an even and an odd dimension, (2, 3): the
\* rectangle grows to (6, 7) and its center stays.
C17_Witness ==
    /\ op = "offset"
    /\ status = "ok"
    /\ arg.amount = 2
    /\ self.size = Size(2, 3)
    /\ result.size = Size(6, 7)
    /\ center(result) = Point(self.top_left.x, self.top_left.y + 1)
    /\ center(self) = Point(self.top_left.x, self.top_left.y + 1)

-----------------------------------------------------------------------------
\* Properties of the Points iterator (checked under SpecPoints).

RangeLen(g) == IF g.start < g.end THEN g.end - g.start ELSE 0

\* The points (x, y) with y in r.rows() and x in r.columns(), each once, in
\* row-major order.
RowMajor(r) ==
    LET cs == columns(r)
        rs == rows(r)
    IN  [k \in 1..(RangeLen(cs) * RangeLen(rs)) |->
            Point(cs.start + ((k - 1) % RangeLen(cs)),
                  rs.start + ((k - 1) \div RangeLen(cs)))]

IsPrefix(s, q) == Len(s) <= Len(q) /\ s = SubSeq(q, 1, Len(s))

\* C13: advancing R.points() yields exactly the points (x, y) with y in
\* R.rows() and x in R.columns(), each once, in row-major order, that is
\* exactly width * height points, then is Exhausted and yields nothing further;
\* for a zero sized R the first advance yields nothing.
C13_PointsRowMajor ==
    op = "points" =>
        /\ IsPrefix(yielded, RowMajor(self))
        /\ iter.state = "Exhausted" =>
               /\ yielded = RowMajor(self)
               /\ Len(yielded) = self.size.width * self.size.height
               /\ ~result.some
        /\ is_zero_sized(self) => yielded = << >>

-----------------------------------------------------------------------------
\* Properties of contains and bottom_right (checked under SpecContains).

\* The size fits a signed integer and top_left + size is representable, so
\* the corner arithmetic of Point and Size does not clamp.
CornerInRange(r) ==
    /\ r.size.width <= I32Max
    /\ r.size.height <= I32Max
    /\ r.top_left.x + r.size.width <= I32Max
    /\ r.top_left.y + r.size.height <= I32Max

\* C14: R.contains(p) is true if and only if R is not zero sized and
\* top_left.x <= p.x <= top_left.x + width - 1 and
\* top_left.y <= p.y <= top_left.y + height - 1; R.bottom_right() is
\* Some(top_left + size - (1,1)) exactly when both dimensions are non-zero and
\* None otherwise, so a zero sized rectangle contains no point, not even its
\* own top_left.
C14_ContainsIsInsideBox ==
    CornerInRange(self) =>
        /\ op = "contains" =>
               (result <=>
                   /\ ~is_zero_sized(self)
                   /\ self.top_left.x <= arg.point.x
                   /\ arg.point.x <= self.top_left.x + self.size.width - 1
                   /\ self.top_left.y <= arg.point.y
                   /\ arg.point.y <= self.top_left.y + self.size.height - 1)
        /\ op = "bottom_right" =>
               result = IF self.size.width > 0 /\ self.size.height > 0
                        THEN Some(Point(self.top_left.x + self.size.width - 1,
                                        self.top_left.y + self.size.height - 1))
                        ELSE None
        /\ (op = "contains" /\ is_zero_sized(self)) => ~result

\* contains() is true of the bottom right corner of a rectangle of size (3, 2),
\* and of no point one step beyond it.
C14_Witness ==
    /\ op = "contains"
    /\ self.size = Size(3, 2)
    /\ arg.point = Point(self.top_left.x + 2, self.top_left.y + 1)
    /\ result

-----------------------------------------------------------------------------
\* Properties of the range overlap helper (checked under SpecOverlaps).

\* C15: for all inclusive ranges a and b with start <= end, overlaps(a, b) is
\* true if and only if max(a.start, b.start) <= min(a.end, b.end), and
\* therefore overlaps(a, b) == overlaps(b, a).
C15_OverlapsIffIntervalsMeet ==
    op = "overlaps" =>
        /\ result <=> (Max(arg.first.start, arg.second.start)
                           <= Min(arg.first.end, arg.second.end))
        /\ result <=> overlaps(arg.second, arg.first)

\* `first` strictly encloses `second`: only the third case of the check finds
\* the overlap.
C15_Witness ==
    /\ op = "overlaps"
    /\ arg.first.start < arg.second.start
    /\ arg.second.end < arg.first.end
    /\ result

\* `first` starts before `second` and ends inside it.
C15_WitnessEndInside ==
    /\ op = "overlaps"
    /\ arg.first.start < arg.second.start
    /\ arg.second.start <= arg.first.end
    /\ arg.first.end < arg.second.end
    /\ result

\* C16: the two axes of a resize are independent: resized_width(w, ax) leaves
\* top_left.y and size.height as they were, resized_height(h, ay) leaves
\* top_left.x and size.width as they were, and resized(Size(w, h), a) equals
\* resized_width(w, a.x()) followed by resized_height(h, a.y()), with size
\* exactly (w, h).
C16_AxesIndependent ==
    /\ (op = "resized_width" /\ status # "panic") =>
           /\ result.top_left.y = self.top_left.y
           /\ result.size.height = self.size.height
           /\ result.size.width = arg.width
    /\ (op = "resized_height" /\ status # "panic") =>
           /\ result.top_left.x = self.top_left.x
           /\ result.size.width = self.size.width
           /\ result.size.height = arg.height
    /\ (op = "resized" /\ status # "panic") =>
           /\ result = resized_height(
                           resized_width(self, arg.size.width, AnchorPoint_x(arg.anchor)),
                           arg.size.height, AnchorPoint_y(arg.anchor))
           /\ result.top_left.x =
                  resized_width(self, arg.size.width, AnchorPoint_x(arg.anchor)).top_left.x
           /\ result.top_left.y =
                  resized_height(self, arg.size.height, AnchorPoint_y(arg.anchor)).top_left.y
           /\ result.size = arg.size

\* A resize around BottomRight from (3, 2) to (1, 3): the corner moves by +2
\* along x and by -1 along y.
C16_Witness ==
    /\ op = "resized"
    /\ status = "ok"
    /\ self.size = Size(3, 2)
    /\ arg = [size |-> Size(1, 3), anchor |-> "BottomRight"]
    /\ result = Rectangle(Point(self.top_left.x + 2, self.top_left.y - 1), Size(1, 3))

====
